---------------------------- MODULE Spec2Model ----------------------------
(***************************************************************************)
(* Model of scripts/02_select_hla_alleles.py: the three allele-name        *)
(* formatting helpers, the two supported-allele loaders, the coverage      *)
(* selector select_for_class and the orchestration in main.                *)
(*                                                                         *)
(* Strings are sequences of one-character strings.  Frequencies and the    *)
(* coverage threshold are integers in tenths (5 stands for 0.5), so the    *)
(* sums of the model are exact; binary floating-point rounding of the      *)
(* running sum is outside the model.                                       *)
(***************************************************************************)
EXTENDS Integers, Sequences, FiniteSets, TLC

VARIABLES
    fmt_pc, fmt_arg, fmt_fn, fmt_ret,          \* a call of a formatting helper
    sel_pc, df, loci, max_alleles, coverage,   \* a call of select_for_class
    selected_rows, sel_df,
    main_pc, env, out                          \* a run of main

fmt_vars == <<fmt_pc, fmt_arg, fmt_fn, fmt_ret>>
sel_vars == <<sel_pc, df, loci, max_alleles, coverage, selected_rows, sel_df>>
main_vars == <<main_pc, env, out>>
vars == <<fmt_vars, sel_vars, main_vars>>

(***************************************************************************)
(* Bounds of the model.                                                    *)
(***************************************************************************)
MaxLen == 3
MaxRows == 3
MaxCap == 3
MaxTableRows == 2

(***************************************************************************)
(* Python string primitives.                                               *)
(***************************************************************************)
Whitespace == {" "}

RECURSIVE lstrip(_)
lstrip(s) ==
    IF s # <<>> /\ Head(s) \in Whitespace THEN lstrip(Tail(s)) ELSE s

RECURSIVE rstrip(_)
rstrip(s) ==
    IF s # <<>> /\ s[Len(s)] \in Whitespace
    THEN rstrip(SubSeq(s, 1, Len(s) - 1))
    ELSE s

\* str.strip(): leading and trailing whitespace removed
strip(s) == rstrip(lstrip(s))

\* str.startswith(p)
startswith(s, p) == Len(s) >= Len(p) /\ SubSeq(s, 1, Len(p)) = p

\* str.replace(old, new) for a one-character old
RECURSIVE replace(_, _, _)
replace(s, old, new) ==
    IF s = <<>> THEN <<>>
    ELSE (IF Head(s) = old THEN new ELSE <<Head(s)>>)
         \o replace(Tail(s), old, new)

\* "c in s"
contains(s, c) == \E i \in 1..Len(s) : s[i] = c

\* position of the first occurrence of c in s (c occurs in s)
find(s, c) == CHOOSE i \in 1..Len(s) : s[i] = c /\ \A j \in 1..(i - 1) : s[j] # c

\* a[4:]
drop4(s) == SubSeq(s, 5, Len(s))

HLA == <<"H", "L", "A", "-">>

\* A call's outcome: a returned string, or an exception raised
Return(v) == [exc |-> "none", val |-> v]
Raise(e) == [exc |-> e, val |-> <<>>]

(***************************************************************************)
(* The formatting helpers.                                                 *)
(***************************************************************************)
\* The prefix test looking at the first character only
InferPrefixFirstLetterOnly(a) == Return(a[1] \in {"A", "B", "C"})

\* a[0] in {"A","B","C"} and (a[1] == "*" or a[1] == "0"), a non-empty:
\* a[1] is read only when a[0] is a Class-I letter, and raises IndexError
\* when a has a single character
InferPrefixTest(a) ==
    IF a[1] \notin {"A", "B", "C"} THEN Return(FALSE)
    ELSE IF Len(a) < 2 THEN Raise("IndexError")
    ELSE Return(a[2] = "*" \/ a[2] = "0")

format_netmhcpan(allele) ==
    LET a == strip(allele) IN
    IF a = <<>> THEN Return(a)
    ELSE IF ~startswith(a, HLA)
    THEN LET t == InferPrefixTest(a) IN
         IF t.exc # "none" THEN Raise(t.exc)
         ELSE IF t.val THEN Return(replace(HLA \o a, "*", <<>>))
         ELSE Return(a)
    ELSE Return(replace(a, "*", <<>>))

format_netmhciipan(allele) ==
    LET a == strip(allele) IN
    IF startswith(a, HLA) THEN Return(drop4(a)) ELSE Return(a)

format_netmhciipan_output(allele) ==
    LET a0 == strip(allele) IN
    IF a0 = <<>> THEN Return(a0)
    ELSE LET a == IF startswith(a0, HLA) THEN drop4(a0) ELSE a0 IN
         IF contains(a, "*")
         THEN LET i == find(a, "*")
                  locus == SubSeq(a, 1, i - 1)
                  rest == SubSeq(a, i + 1, Len(a))
              IN Return(locus \o <<"_">> \o replace(rest, ":", <<>>))
         ELSE Return(replace(replace(a, ":", <<>>), "*", <<"_">>))

(***************************************************************************)
(* select_for_class.  A DataFrame is a sequence of rows; a row is a record *)
(* with fields idx (its index label), locus, allele and frequency (main's  *)
(* tables carry further columns).                                          *)
(***************************************************************************)
CLASS_I_LOCI == <<"A", "B", "C">>
CLASS_II_LOCI == <<"DRB1", "DQB1", "DPB1">>

Range(s) == {s[i] : i \in DOMAIN s}

Min(a, b) == IF a <= b THEN a ELSE b
Max(a, b) == IF a >= b THEN a ELSE b

\* df[df["locus"] == locus]
LocusRows(d, locus) == SelectSeq(d, LAMBDA r : r.locus = locus)

MaxFrequency(s, P) ==
    CHOOSE m \in {s[i].frequency : i \in P} : \A i \in P : s[i].frequency <= m

\* The orders of the rows at positions P of s in which frequency never
\* increases
RECURSIVE Descending(_, _)
Descending(s, P) ==
    IF P = {} THEN {<<>>}
    ELSE UNION {{<<s[i]>> \o t : t \in Descending(s, P \ {i})} :
                i \in {j \in P : s[j].frequency = MaxFrequency(s, P)}}

\* sort_values("frequency", ascending=False) with the default kind
\* ("quicksort"), which is not a stable sort: rows of equal frequency come
\* out in an order the build chooses, so the call has a set of outcomes
sort_values(s) == Descending(s, DOMAIN s)

\* drop_duplicates with keep="last" in place of keep="first"
RECURSIVE drop_duplicates_keep_last(_)
drop_duplicates_keep_last(s) ==
    IF s = <<>> THEN <<>>
    ELSE LET n == Len(s)
             front == SubSeq(s, 1, n - 1)
         IN drop_duplicates_keep_last(SelectSeq(front, LAMBDA r : r.allele # s[n].allele))
            \o <<s[n]>>

\* drop_duplicates(subset=["allele"], keep="first")
RECURSIVE drop_duplicates(_)
drop_duplicates(s) ==
    IF s = <<>> THEN <<>>
    ELSE <<Head(s)>>
         \o drop_duplicates(SelectSeq(Tail(s), LAMBDA r : r.allele # Head(s).allele))

\* Variants of the coverage walk with a plausible slip each: the break taken
\* before the row is appended, the threshold compared strictly, and the
\* threshold tested before the row is visited
RECURSIVE CoverageWalkBreakBeforeAppend(_, _, _)
CoverageWalkBreakBeforeAppend(s, cum, cov) ==
    IF s = <<>> THEN <<>>
    ELSE LET c == cum + Head(s).frequency IN
         IF c >= cov THEN <<>>
         ELSE <<Head(s)>> \o CoverageWalkBreakBeforeAppend(Tail(s), c, cov)

RECURSIVE CoverageWalkStrict(_, _, _)
CoverageWalkStrict(s, cum, cov) ==
    IF s = <<>> THEN <<>>
    ELSE LET c == cum + Head(s).frequency IN
         <<Head(s)>> \o (IF c > cov THEN <<>> ELSE CoverageWalkStrict(Tail(s), c, cov))

RECURSIVE CoverageWalkTestFirst(_, _, _)
CoverageWalkTestFirst(s, cum, cov) ==
    IF s = <<>> \/ cum >= cov THEN <<>>
    ELSE <<Head(s)>> \o CoverageWalkTestFirst(Tail(s), cum + Head(s).frequency, cov)

\* the loop over sub.iterrows(): append, add to cum, break once cum >= coverage
RECURSIVE CoverageWalk(_, _, _)
CoverageWalk(s, cum, cov) ==
    IF s = <<>> THEN <<>>
    ELSE LET c == cum + Head(s).frequency IN
         <<Head(s)>> \o (IF c >= cov THEN <<>> ELSE CoverageWalk(Tail(s), c, cov))

\* one iteration of "for locus in loci": the rows it appends to selected_rows
LocusSelection(d, locus, cov) ==
    LET sub == LocusRows(d, locus) IN
    IF sub = <<>> THEN {<<>>}
    ELSE {CoverageWalk(drop_duplicates(o), 0, cov) : o \in sort_values(sub)}

\* selected_rows after the loop over the loci ls
RECURSIVE SelectedRows(_, _, _)
SelectedRows(d, ls, cov) ==
    IF ls = <<>> THEN {<<>>}
    ELSE {a \o b : a \in LocusSelection(d, Head(ls), cov),
                   b \in SelectedRows(d, Tail(ls), cov)}

\* DataFrame.head(n)
head(s, n) ==
    IF n >= 0 THEN SubSeq(s, 1, Min(n, Len(s)))
    ELSE SubSeq(s, 1, Max(0, Len(s) + n))

\* reset_index(drop=True)
reset_index(s) == [i \in DOMAIN s |-> [s[i] EXCEPT !.idx = i - 1]]

\* the cut to max_alleles without the sort before it
CapSelectionUnsorted(pool, cap) ==
    IF pool = <<>> THEN {<<>>}
    ELSE IF Len(pool) > cap THEN {reset_index(head(pool, cap))}
    ELSE {reset_index(pool)}

\* the end of select_for_class: the empty frame, or the pooled rows, sorted
\* and cut to max_alleles when there are more
CapSelection(pool, cap) ==
    IF pool = <<>> THEN {<<>>}
    ELSE IF Len(pool) > cap
    THEN {reset_index(head(o, cap)) : o \in sort_values(pool)}
    ELSE {reset_index(pool)}

\* select_for_class(df, loci, max_alleles, coverage): the frames it can return
select_for_class(d, ls, cap, cov) ==
    UNION {CapSelection(pool, cap) : pool \in SelectedRows(d, ls, cov)}

(***************************************************************************)
(* The supported-allele loaders.  A NetMHCpan file is a sequence of lines; *)
(* a NetMHCIIpan file is a sequence of lines, each the sequence of its     *)
(* whitespace-separated tokens.                                            *)
(***************************************************************************)
load_netmhcpan_supported(lines) ==
    {name \in {strip(lines[i]) : i \in DOMAIN lines} :
        /\ name # <<>>
        /\ \/ startswith(name, HLA \o <<"A">>)
           \/ startswith(name, HLA \o <<"B">>)
           \/ startswith(name, HLA \o <<"C">>)}

\* "not line or line.startswith('#') or line.startswith('DR ')" on a
\* stripped line, read on its tokens
SkippedLine(tokens) ==
    \/ tokens = <<>>
    \/ startswith(tokens[1], <<"#">>)
    \/ (tokens[1] = <<"D", "R">> /\ Len(tokens) >= 2)

Tokens(lines) ==
    UNION {Range(lines[i]) : i \in {j \in DOMAIN lines : ~SkippedLine(lines[j])}}

load_netmhciipan_supported(lines) ==
    [DRB1 |-> {t \in Tokens(lines) : startswith(t, <<"D", "R", "B", "1", "*">>)},
     DQB1 |-> {t \in Tokens(lines) : startswith(t, <<"D", "Q", "B", "1", "*">>)},
     DPB1 |-> {t \in Tokens(lines) : startswith(t, <<"D", "P", "B", "1", "*">>)}]

(***************************************************************************)
(* main.                                                                   *)
(***************************************************************************)
required_cols == {"locus", "allele", "frequency"}

\* argparse defaults of --coverage (0.9, in tenths), --max-classI, --max-classII
DefaultCoverage == 9
DefaultMaxClassI == 20
DefaultMaxClassII == 15

\* df[df["population"].isin(args.population)]
PopulationRows(d, pops) == SelectSeq(d, LAMBDA r : r.population \in pops)

\* df[df["locus"].isin(class_loci)]
ClassRows(d, ls) == SelectSeq(d, LAMBDA r : r.locus \in Range(ls))

\* classI_df["netmhcpan_allele"] = classI_df["allele"].map(format_netmhcpan)
WithNetmhcpanAllele(d) ==
    [i \in DOMAIN d |-> d[i] @@ ("netmhcpan_allele" :> format_netmhcpan(d[i].allele).val)]

\* classII_df["netmhciipan_allele"] = classII_df["allele"].map(format_netmhciipan)
WithNetmhciipanAllele(d) ==
    [i \in DOMAIN d |->
        d[i] @@ ("netmhciipan_allele" :> format_netmhciipan(d[i].allele).val)]

\* A support test that looks the allele up in the three Class-II sets at once
is_supported_any_locus(row, sup) ==
    row.netmhciipan_allele \in (sup.DRB1 \cup sup.DQB1 \cup sup.DPB1)

\* is_supported(row) of the Class-II branch
is_supported(row, sup) ==
    IF row.locus = "DRB1" THEN row.netmhciipan_allele \in sup.DRB1
    ELSE IF row.locus = "DQB1" THEN row.netmhciipan_allele \in sup.DQB1
    ELSE IF row.locus = "DPB1" THEN row.netmhciipan_allele \in sup.DPB1
    ELSE FALSE

\* classI_df as handed to select_for_class
classI_df(d, supported_I) ==
    SelectSeq(WithNetmhcpanAllele(ClassRows(d, CLASS_I_LOCI)),
              LAMBDA r : r.netmhcpan_allele \in supported_I)

\* classII_df as handed to select_for_class
classII_df(d, sup) ==
    SelectSeq(WithNetmhciipanAllele(ClassRows(d, CLASS_II_LOCI)),
              LAMBDA r : is_supported(r, sup))

\* ",".join(names)
RECURSIVE join(_)
join(names) ==
    IF names = <<>> THEN <<>>
    ELSE IF Len(names) = 1 THEN names[1]
    ELSE names[1] \o <<",">> \o join(Tail(names))

\* the text written to selected_classI_alleles.txt
classI_text(sel) == join([i \in DOMAIN sel |-> sel[i].netmhcpan_allele])

\* the text written to selected_classII_alleles.txt
classII_text(sel) ==
    join([i \in DOMAIN sel |-> format_netmhciipan_output(sel[i].netmhciipan_allele).val])

\* the warnings printed to stderr: a class with rows none of which is supported
Warnings(d, supported_I, sup) ==
    {c \in {"I"} : ClassRows(d, CLASS_I_LOCI) # <<>> /\ classI_df(d, supported_I) = <<>>}
    \cup {c \in {"II"} : ClassRows(d, CLASS_II_LOCI) # <<>> /\ classII_df(d, sup) = <<>>}

(***************************************************************************)
(* Calls of the formatting helpers on bounded inputs.                      *)
(***************************************************************************)
Alphabet == {"H", "L", "A", "B", "-", "*", "0", ":", " "}

RECURSIVE Strings(_)
Strings(n) ==
    IF n = 0 THEN {<<>>}
    ELSE LET S == Strings(n - 1) IN
         S \cup {Append(s, c) : s \in {t \in S : Len(t) = n - 1}, c \in Alphabet}

\* every string of at most MaxLen characters, bare and behind "HLA-"
FormatInputs == Strings(MaxLen) \cup {HLA \o s : s \in Strings(MaxLen)}

SelIdle ==
    /\ sel_pc = "idle" /\ df = <<>> /\ loci = <<>> /\ max_alleles = 0
    /\ coverage = 0 /\ selected_rows = <<>> /\ sel_df = <<>>

MainIdle == main_pc = "idle" /\ env = <<>> /\ out = <<>>

FmtIdle == fmt_pc = "idle" /\ fmt_arg = <<>> /\ fmt_fn = "none" /\ fmt_ret = Return(<<>>)

InitFormat ==
    /\ fmt_pc = "call"
    /\ fmt_arg \in FormatInputs
    /\ fmt_fn = "none"
    /\ fmt_ret = Return(<<>>)
    /\ SelIdle
    /\ MainIdle

CallFormat(fn, r) ==
    /\ fmt_pc = "call"
    /\ fmt_pc' = "done"
    /\ fmt_fn' = fn
    /\ fmt_ret' = r
    /\ UNCHANGED <<fmt_arg, sel_vars, main_vars>>

CallFormatNetmhcpan == CallFormat("format_netmhcpan", format_netmhcpan(fmt_arg))

CallFormatNetmhciipan == CallFormat("format_netmhciipan", format_netmhciipan(fmt_arg))

CallFormatNetmhciipanOutput ==
    CallFormat("format_netmhciipan_output", format_netmhciipan_output(fmt_arg))

NextFormat ==
    \/ CallFormatNetmhcpan
    \/ CallFormatNetmhciipan
    \/ CallFormatNetmhciipanOutput

SpecFormat == InitFormat /\ [][NextFormat]_vars

(***************************************************************************)
(* Properties of the formatting helpers.                                   *)
(***************************************************************************)
FormatDone(fn) == fmt_pc = "done" /\ fmt_fn = fn

RemoveStars(s) == SelectSeq(s, LAMBDA c : c # "*")
EnsureHLA(s) == IF startswith(s, HLA) THEN s ELSE HLA \o s
ClassILetters == {"A", "B", "C"}

\* C6: the three formatting helpers are total: whatever the input string,
\* each returns a string and raises nothing.
C6_FormattersTotal == fmt_pc = "done" => fmt_ret.exc = "none"

\* C9 as claimed: an input that begins with "HLA-" or with a Class-I letter
\* comes back with the prefix ensured and every "*" removed; any other input
\* comes back unchanged.  Stated for the inputs without surrounding
\* whitespace on which the helper returns, so that a violation rests neither
\* on the trimming nor on the exception of C6.
C9_PrefixForEveryClassILetter ==
    (/\ FormatDone("format_netmhcpan")
     /\ strip(fmt_arg) = fmt_arg
     /\ fmt_ret.exc = "none") =>
        fmt_ret =
            IF startswith(fmt_arg, HLA)
               \/ (fmt_arg # <<>> /\ fmt_arg[1] \in ClassILetters)
            THEN Return(RemoveStars(EnsureHLA(fmt_arg)))
            ELSE Return(fmt_arg)

\* C9 as the code has it, on the input with its surrounding whitespace
\* removed: the prefix is ensured and every "*" removed when the input begins
\* with "HLA-" or with a Class-I letter followed by "*" or "0"; a Class-I
\* letter standing alone raises IndexError; any other input comes back as it
\* is (whitespace removed).
C9_PrefixForLetterThenStarOrZero ==
    FormatDone("format_netmhcpan") =>
        LET a == strip(fmt_arg) IN
        IF \/ startswith(a, HLA)
           \/ (Len(a) >= 2 /\ a[1] \in ClassILetters /\ a[2] \in {"*", "0"})
        THEN fmt_ret = Return(RemoveStars(EnsureHLA(a)))
        ELSE IF Len(a) = 1 /\ a[1] \in ClassILetters
        THEN fmt_ret.exc = "IndexError"
        ELSE fmt_ret = Return(a)

\* "A*0" comes back as "HLA-A0": the prefix inferred and the "*" removed
C9_Witness ==
    /\ FormatDone("format_netmhcpan")
    /\ fmt_arg = <<"A", "*", "0">>
    /\ fmt_ret = Return(<<"H", "L", "A", "-", "A", "0">>)

(***************************************************************************)
(* Calls of select_for_class on bounded tables.                            *)
(***************************************************************************)
RowLoci == {"A", "B"}
Alleles == {"X", "Y", "Z"}
Frequencies == {3, 5}
Coverages == {0, 5, 8}
Caps == 0..MaxCap

Cells == [locus : RowLoci, allele : Alleles, frequency : Frequencies]

\* a table read in order: row i carries the index label i - 1
Frame(cells) ==
    [i \in DOMAIN cells |->
        [idx |-> i - 1, locus |-> cells[i].locus, allele |-> cells[i].allele,
         frequency |-> cells[i].frequency]]

Tables == UNION {{Frame(c) : c \in [1..n -> Cells]} : n \in 0..MaxRows}

InitSelect ==
    /\ sel_pc = "call"
    /\ df \in Tables
    /\ loci \in {CLASS_I_LOCI, CLASS_II_LOCI}
    /\ max_alleles \in Caps
    /\ coverage \in Coverages
    /\ selected_rows = <<>>
    /\ sel_df = <<>>
    /\ FmtIdle
    /\ MainIdle

SelectForClass ==
    /\ sel_pc = "call"
    /\ \E pool \in SelectedRows(df, loci, coverage) :
          \E res \in CapSelection(pool, max_alleles) :
             /\ selected_rows' = pool
             /\ sel_df' = res
    /\ sel_pc' = "done"
    /\ UNCHANGED <<df, loci, max_alleles, coverage, fmt_vars, main_vars>>

NextSelect == SelectForClass

SpecSelect == InitSelect /\ [][NextSelect]_vars

(***************************************************************************)
(* Properties of select_for_class.                                         *)
(***************************************************************************)
SelectDone == sel_pc = "done"

RECURSIVE SumFrequency(_)
SumFrequency(s) == IF s = <<>> THEN 0 ELSE Head(s).frequency + SumFrequency(Tail(s))

\* the rows the loop contributed for a locus, in the order it appended them
Contribution(locus) == LocusRows(selected_rows, locus)

AllelesOf(s) == {s[i].allele : i \in DOMAIN s}

\* the highest frequency the input holds for an allele of a locus
BestFrequency(locus, allele) ==
    LET F == {df[i].frequency : i \in {j \in DOMAIN df :
                 df[j].locus = locus /\ df[j].allele = allele}}
    IN CHOOSE m \in F : \A f \in F : f <= m

RowKey(r) == <<r.locus, r.allele, r.frequency>>
Keys(s) == {RowKey(s[i]) : i \in DOMAIN s}

\* C1: every locus of the class with at least one record contributes,
\* before the cap, rows whose cumulative frequency reaches coverage, or else
\* all of the locus's distinct alleles.
C1_CoverageOrExhaustion ==
    SelectDone =>
        \A i \in DOMAIN loci :
            LocusRows(df, loci[i]) # <<>> =>
                \/ SumFrequency(Contribution(loci[i])) >= coverage
                \/ AllelesOf(Contribution(loci[i])) = AllelesOf(LocusRows(df, loci[i]))

\* one locus reaches coverage without exhausting its alleles while another
\* is exhausted below coverage
C1_Witness ==
    /\ SelectDone
    /\ \E i \in DOMAIN loci :
          /\ SumFrequency(Contribution(loci[i])) >= coverage
          /\ AllelesOf(Contribution(loci[i])) # AllelesOf(LocusRows(df, loci[i]))
    /\ \E i \in DOMAIN loci :
          /\ LocusRows(df, loci[i]) # <<>>
          /\ SumFrequency(Contribution(loci[i])) < coverage

\* C2: for a cap >= 0 the result has min(cap, size of the pool) rows, and
\* when the pool is larger than the cap the rows kept are rows of the pool
\* none of which has a lower frequency than a dropped row.
C2_CapKeepsHighest ==
    (SelectDone /\ max_alleles >= 0) =>
        /\ Len(sel_df) = Min(max_alleles, Len(selected_rows))
        /\ Len(selected_rows) > max_alleles =>
              /\ Keys(sel_df) \subseteq Keys(selected_rows)
              /\ Cardinality(Keys(sel_df)) = max_alleles
              /\ \A k \in Keys(sel_df) :
                    \A d \in Keys(selected_rows) \ Keys(sel_df) : d[3] <= k[3]

\* the cap cuts a pool whose higher-frequency row comes after a lower one
C2_Witness ==
    /\ SelectDone
    /\ max_alleles > 0
    /\ Len(selected_rows) > max_alleles
    /\ \E i, j \in DOMAIN selected_rows :
          /\ i < j
          /\ selected_rows[i].frequency < selected_rows[j].frequency
          /\ RowKey(selected_rows[i]) \notin Keys(sel_df)
          /\ RowKey(selected_rows[j]) \in Keys(sel_df)

\* C3: in the result no two rows share locus and allele, and every row
\* carries the highest frequency the input holds for its locus and allele.
C3_DistinctWithMaxFrequency ==
    SelectDone =>
        /\ \A i, j \in DOMAIN sel_df :
              (sel_df[i].locus = sel_df[j].locus /\ sel_df[i].allele = sel_df[j].allele)
                  => i = j
        /\ \A i \in DOMAIN sel_df :
              sel_df[i].frequency = BestFrequency(sel_df[i].locus, sel_df[i].allele)

\* a selected allele occurs in the input twice, the lower frequency first
C3_Witness ==
    /\ SelectDone
    /\ \E r \in Range(sel_df) : \E i, j \in DOMAIN df :
          /\ i < j
          /\ df[i].locus = r.locus /\ df[j].locus = r.locus
          /\ df[i].allele = r.allele /\ df[j].allele = r.allele
          /\ df[i].frequency < df[j].frequency

\* C5: per locus the walk goes down the alleles by frequency and stops at the
\* first one at which the running sum reaches coverage: before the cap every
\* non-empty proper prefix of a locus's rows sums below coverage, the rows
\* are the locus's highest-frequency alleles in descending order, and a top
\* allele that alone reaches coverage is the only row of its locus.
C5_StopsAtFirstCrossing ==
    SelectDone =>
        \A i \in DOMAIN loci :
            LET c == Contribution(loci[i])
                rest == AllelesOf(LocusRows(df, loci[i])) \ AllelesOf(c)
            IN /\ \A k \in 1..(Len(c) - 1) : SumFrequency(SubSeq(c, 1, k)) < coverage
               /\ \A k \in 1..(Len(c) - 1) : c[k].frequency >= c[k + 1].frequency
               /\ \A k \in DOMAIN c : c[k].frequency = BestFrequency(loci[i], c[k].allele)
               /\ \A a \in rest : BestFrequency(loci[i], a) <= c[Len(c)].frequency
               /\ (\E a \in AllelesOf(LocusRows(df, loci[i])) :
                      BestFrequency(loci[i], a) >= coverage) => Len(c) = 1

\* a locus with three alleles of which the walk takes two: the first alone is
\* below coverage, the first two reach it exactly
C5_Witness ==
    /\ SelectDone
    /\ \E i \in DOMAIN loci :
          /\ Cardinality(AllelesOf(LocusRows(df, loci[i]))) = 3
          /\ Len(Contribution(loci[i])) = 2
          /\ SumFrequency(Contribution(loci[i])) = coverage

\* C8 as claimed: with coverage <= 0 the result is empty for every table.
C8_NonPositiveCoverageSelectsNothing ==
    (SelectDone /\ coverage <= 0) => sel_df = <<>>

\* C8 as the code has it: with coverage <= 0 every locus of the class that
\* has records contributes, before the cap, exactly one row, an allele of the
\* locus's highest frequency; the result is empty only when the class has no
\* record or the cap is 0.
C8_NonPositiveCoverageSelectsTop ==
    (SelectDone /\ coverage <= 0) =>
        /\ \A i \in DOMAIN loci :
              LET c == Contribution(loci[i])
                  sub == LocusRows(df, loci[i])
              IN IF sub = <<>> THEN c = <<>>
                 ELSE /\ Len(c) = 1
                      /\ \A a \in AllelesOf(sub) :
                            BestFrequency(loci[i], a) <= c[1].frequency
        /\ sel_df = <<>> <=>
              \/ \A i \in DOMAIN loci : LocusRows(df, loci[i]) = <<>>
              \/ max_alleles = 0

\* coverage 0, two loci with records, and a row of each in the result
C8_Witness ==
    /\ SelectDone
    /\ coverage = 0
    /\ Len(sel_df) = 2
    /\ sel_df[1].locus # sel_df[2].locus

\* position in the input of the first row holding an allele's highest frequency
FirstBest(locus, allele) ==
    CHOOSE i \in DOMAIN df :
        /\ df[i].locus = locus /\ df[i].allele = allele
        /\ df[i].frequency = BestFrequency(locus, allele)
        /\ \A j \in 1..(i - 1) :
              ~(df[j].locus = locus /\ df[j].allele = allele
                /\ df[j].frequency = df[i].frequency)

\* C10: ties are broken by input order.  Of two alleles of a locus with the
\* same frequency the one earlier in the input is visited first, so the later
\* one is selected only with the earlier one and after it; and of two pooled
\* rows of the same frequency the cap keeps the later only with the earlier.
C10_TiesByInputOrder ==
    SelectDone =>
        /\ \A i \in DOMAIN loci :
              LET c == Contribution(loci[i]) IN
              \A x, y \in AllelesOf(LocusRows(df, loci[i])) :
                  (/\ x # y
                   /\ BestFrequency(loci[i], x) = BestFrequency(loci[i], y)
                   /\ FirstBest(loci[i], x) < FirstBest(loci[i], y)
                   /\ y \in AllelesOf(c))
                  => \E k, l \in DOMAIN c : k < l /\ c[k].allele = x /\ c[l].allele = y
        /\ \A i, j \in DOMAIN selected_rows :
              (/\ i < j
               /\ selected_rows[i].frequency = selected_rows[j].frequency
               /\ RowKey(selected_rows[j]) \in Keys(sel_df))
              => RowKey(selected_rows[i]) \in Keys(sel_df)

(***************************************************************************)
(* Runs of main on bounded inputs.  Allele names are of the form the       *)
(* upstream converter writes ("HLA-" + gene + "*" + fields).               *)
(***************************************************************************)
Name_A0201 == HLA \o <<"A", "*", "0", "2", ":", "0", "1">>
Name_DRB10401 == HLA \o <<"D", "R", "B", "1", "*", "0", "4", ":", "0", "1">>
Name_DQB10301 == HLA \o <<"D", "Q", "B", "1", "*", "0", "3", ":", "0", "1">>

TableLoci == {"A", "DRB1", "DQB1", "E"}
TableAlleles == {Name_A0201, Name_DRB10401, Name_DQB10301}
TableFrequencies == {5}
Populations == {"p", "q"}

ColumnSets ==
    {{"locus", "allele", "frequency", "population"},
     {"locus", "allele", "frequency"},
     {"locus", "allele"}}

TableCells(cols) ==
    IF cols = {"locus", "allele", "frequency", "population"}
    THEN [locus : TableLoci, allele : TableAlleles, frequency : TableFrequencies,
          population : Populations]
    ELSE IF cols = {"locus", "allele", "frequency"}
    THEN [locus : TableLoci, allele : TableAlleles, frequency : TableFrequencies]
    ELSE [locus : TableLoci, allele : TableAlleles]

\* pd.read_csv: row i carries the index label i - 1
ReadTable(cells) == [i \in DOMAIN cells |-> cells[i] @@ ("idx" :> i - 1)]

TablesOver(cols) ==
    UNION {{ReadTable(c) : c \in [1..n -> TableCells(cols)]} : n \in 0..MaxTableRows}

NetMHCpanFiles ==
    {<<>>,
     <<<<"H", "L", "A", "-", "A", "0", "2", ":", "0", "1">>, <<>>,
       <<"B", "o", "L", "A", "-", "1">>>>}

Tok_DRB10401 == <<"D", "R", "B", "1", "*", "0", "4", ":", "0", "1">>
Tok_DQB10301 == <<"D", "Q", "B", "1", "*", "0", "3", ":", "0", "1">>

NetMHCIIpanFiles ==
    {<<>>,
     <<<< <<"D", "R">>, <<"D", "Q">>, <<"D", "P">> >>, <<Tok_DRB10401>>>>,
     <<<<Tok_DQB10301, <<"H", "-", "2">>>>>>,
     <<<< <<"#">>, Tok_DRB10401 >>, <<Tok_DRB10401, Tok_DQB10301>>, <<>>>>}

NoOutput ==
    [status |-> "running", supported_I |-> {}, supported_II |-> [DRB1 |-> {}, DQB1 |-> {}, DPB1 |-> {}],
     sel_I |-> <<>>, sel_II |-> <<>>, classI_file |-> <<>>, classII_file |-> <<>>,
     warnings |-> {}]

InitMain ==
    /\ main_pc = "start"
    /\ \E cols \in ColumnSets :
         \E t \in TablesOver(cols) :
           \E pop \in {{}, {"p"}} :
             \E f1 \in NetMHCpanFiles :
               \E f2 \in NetMHCIIpanFiles :
                  env = [columns |-> cols, table |-> t,
                         population_given |-> pop # {}, population |-> pop,
                         coverage |-> DefaultCoverage,
                         max_classI |-> DefaultMaxClassI,
                         max_classII |-> DefaultMaxClassII,
                         netmhcpan_alleles |-> f1, netmhciipan_alleles |-> f2]
    /\ out = NoOutput
    /\ FmtIdle
    /\ SelIdle

MissingColumns == required_cols \ env.columns # {}

\* The emptiness test made after the Class-I filter: a table without Class-I
\* rows stops the run as a population without rows does
NoMatchingRowsOrNoClassI ==
    IF env.population_given
    THEN /\ "population" \in env.columns
         /\ ClassRows(PopulationRows(env.table, env.population), CLASS_I_LOCI) = <<>>
    ELSE ClassRows(env.table, CLASS_I_LOCI) = <<>>

NoPopulationColumn == env.population_given /\ "population" \notin env.columns
NoMatchingRows ==
    /\ env.population_given
    /\ "population" \in env.columns
    /\ PopulationRows(env.table, env.population) = <<>>

Exit(msg) ==
    /\ main_pc = "start"
    /\ main_pc' = "exit"
    /\ out' = [out EXCEPT !.status = msg]
    /\ UNCHANGED <<env, fmt_vars, sel_vars>>

\* sys.exit("ERROR: freq table must contain columns: ...")
MainExitMissingColumns == MissingColumns /\ Exit("missing columns")

\* sys.exit("ERROR: --population was given but 'population' column is missing ...")
MainExitNoPopulationColumn ==
    ~MissingColumns /\ NoPopulationColumn /\ Exit("population column missing")

\* sys.exit("ERROR: no rows matching populations: ...")
MainExitNoMatchingRows ==
    ~MissingColumns /\ NoMatchingRows /\ Exit("no rows matching populations")

\* a run of main that reaches its end
MainRun ==
    /\ main_pc = "start"
    /\ ~MissingColumns /\ ~NoPopulationColumn /\ ~NoMatchingRows
    /\ LET supported_I == load_netmhcpan_supported(env.netmhcpan_alleles)
           sup == load_netmhciipan_supported(env.netmhciipan_alleles)
           d == IF env.population_given
                THEN PopulationRows(env.table, env.population)
                ELSE env.table
       IN \E sI \in select_for_class(classI_df(d, supported_I), CLASS_I_LOCI,
                                     env.max_classI, env.coverage) :
            \E sII \in select_for_class(classII_df(d, sup), CLASS_II_LOCI,
                                        env.max_classII, env.coverage) :
               out' = [status |-> "done", supported_I |-> supported_I,
                       supported_II |-> sup, sel_I |-> sI, sel_II |-> sII,
                       classI_file |-> classI_text(sI),
                       classII_file |-> classII_text(sII),
                       warnings |-> Warnings(d, supported_I, sup)]
    /\ main_pc' = "done"
    /\ UNCHANGED <<env, fmt_vars, sel_vars>>

NextMain ==
    \/ MainExitMissingColumns
    \/ MainExitNoPopulationColumn
    \/ MainExitNoMatchingRows
    \/ MainRun

SpecMain == InitMain /\ [][NextMain]_vars

(***************************************************************************)
(* Properties of main.                                                     *)
(***************************************************************************)
MainDone == main_pc = "done"

\* the table after the population filter
Filtered ==
    IF env.population_given
    THEN SelectSeq(env.table, LAMBDA r : r.population \in env.population)
    ELSE env.table

\* the downstream names of a table allele
ToolIName(allele) == RemoveStars(EnsureHLA(allele))
ToolIIName(allele) == IF startswith(allele, HLA) THEN SubSeq(allele, 5, Len(allele)) ELSE allele

ClassI == {"A", "B", "C"}
ClassII == {"DRB1", "DQB1", "DPB1"}

\* the records of a class that survive the supported-set filter
SurvivorsI ==
    {r \in Range(Filtered) : r.locus \in ClassI /\ ToolIName(r.allele) \in out.supported_I}
SurvivorsII ==
    {r \in Range(Filtered) :
        r.locus \in ClassII /\ ToolIIName(r.allele) \in out.supported_II[r.locus]}

\* C4: every row of the final Class-I selection is a table row of locus A, B
\* or C whose translated name is in the merged Class-I supported set, and
\* every row of the final Class-II selection is a table row of locus DRB1,
\* DQB1 or DPB1 whose translated name is in the supported set of its own
\* locus; rows of other loci appear in neither.
C4_SelectedAreSupported ==
    MainDone =>
        /\ \A r \in Range(out.sel_I) :
              /\ r.locus \in ClassI
              /\ r.netmhcpan_allele = ToolIName(r.allele)
              /\ r.netmhcpan_allele \in out.supported_I
              /\ \E t \in Range(Filtered) : t.locus = r.locus /\ t.allele = r.allele
        /\ \A r \in Range(out.sel_II) :
              /\ r.locus \in ClassII
              /\ r.netmhciipan_allele = ToolIIName(r.allele)
              /\ r.netmhciipan_allele \in out.supported_II[r.locus]
              /\ \E t \in Range(Filtered) : t.locus = r.locus /\ t.allele = r.allele

\* two Class-II rows whose names the tool supports, one of them under a locus
\* whose own set does not hold the name: only the other is selected
C4_Witness ==
    /\ MainDone
    /\ Len(out.sel_II) = 1
    /\ Len(Filtered) = 2
    /\ \A t \in Range(Filtered) :
          /\ t.locus \in ClassII
          /\ ToolIIName(t.allele) \in
                (out.supported_II.DRB1 \cup out.supported_II.DQB1 \cup out.supported_II.DPB1)

=============================================================================
